---- MODULE Spec2Model ----
(***************************************************************************)
(* Model of bot.py (Claw-Renamer): the handlers process_file and           *)
(* rename_mode_command run on the worker threads of the TeleBot created at *)
(* bot.py:21, over the shared settings dict, the shared                    *)
(* downloading_progress dict and the files under the downloads directory.  *)
(*                                                                         *)
(* A string is a tuple of one-character strings.  A path under downloads   *)
(* is the pair <<"downloads", name>>.  Python's None is the empty tuple.   *)
(***************************************************************************)
EXTENDS Integers, Sequences, FiniteSets, TLC

VARIABLES settings, downloading_progress, fs, call, nreq,
          \* the argument and the return value of a call of one of the pure
          \* functions (sanitize_filename, format_time) taken by itself
          argument, result

vars == <<settings, downloading_progress, fs, call, nreq, argument, result>>

(***************************************************************************)
(* Bounds of the model.                                                    *)
(***************************************************************************)
\* process_file invocations per behaviour
MaxRequests == 2
\* bytes delivered by iter_content per download
MaxBytes == 3
\* length of the varied part of an argument of sanitize_filename
MaxNameLen == 2
\* largest number of seconds, of either sign, given to format_time
MaxSeconds == 3661

\* worker threads of telebot.TeleBot(config.TOKEN): threaded, 2 workers
NumThreads == 2
Threads == 1..NumThreads

\* filename[:200]
TruncLen == 200

None == <<>>

(***************************************************************************)
(* Strings.                                                                *)
(***************************************************************************)
Pad(n) == [i \in 1..n |-> "a"]

EndsWith(s, suf) ==
    /\ Len(suf) <= Len(s)
    /\ SubSeq(s, Len(s) - Len(suf) + 1, Len(s)) = suf

\* str.lower(), on the alphabet of the modelled inputs
LowerChar(c) ==
    CASE c = "A" -> "a"
      [] c = "B" -> "b"
      [] c = "G" -> "g"
      [] c = "J" -> "j"
      [] c = "P" -> "p"
      [] c = "T" -> "t"
      [] c = "X" -> "x"
      [] OTHER -> c

Lower(s) == [i \in 1..Len(s) |-> LowerChar(s[i])]

\* invalid_chars = r'[<>:"/\\|?*]'
InvalidChars == {"<", ">", ":", "\"", "/", "\\", "|", "?", "*"}

IsValidChar(c) == c \notin InvalidChars

\* re.sub(invalid_chars, '', filename)
StripInvalid(s) == SelectSeq(s, IsValidChar)

\* sanitize_filename without the cut of bot.py:81
Truncate_Keeps(s) == s

\* filename[:200]
Truncate(s) == IF Len(s) > TruncLen THEN SubSeq(s, 1, TruncLen) ELSE s

sanitize_filename(filename) == Truncate(StripInvalid(filename))

\* the index of the last occurrence of character ch in s, 0 when there is none
LastIndexOf(s, ch) ==
    LET at == {i \in 1..Len(s) : s[i] = ch} IN
    IF at = {} THEN 0 ELSE CHOOSE i \in at : \A j \in at : j <= i

\* str.split("/")[-1]
LastSegment(s) == SubSeq(s, LastIndexOf(s, "/") + 1, Len(s))

\* os.path.splitext(filename)[1], for a name without separators: the part
\* from the last dot on, empty when only dots precede that dot
SplitExt(s) ==
    LET d == LastIndexOf(s, ".") IN
    IF d = 0 THEN <<>>
    ELSE IF \A i \in 1..(d - 1) : s[i] = "." THEN <<>>
    ELSE SubSeq(s, d, Len(s))

DownloadedFile ==
    <<"d", "o", "w", "n", "l", "o", "a", "d", "e", "d", "_", "f", "i", "l", "e">>

DotTxt == <<".", "t", "x", "t">>

\* the tuple given to str.endswith at bot.py:170
KnownExtensions ==
    { <<".", "j", "p", "g">>, <<".", "j", "p", "e", "g">>, <<".", "p", "n", "g">>,
      <<".", "p", "d", "f">>, <<".", "t", "x", "t">>, <<".", "m", "p", "4">>,
      <<".", "a", "v", "i">>, <<".", "m", "k", "v">>, <<".", "m", "o", "v">>,
      <<".", "m", "p", "3">>, <<".", "w", "a", "v">>, <<".", "o", "g", "g">>,
      <<".", "z", "i", "p">>, <<".", "r", "a", "r">>, <<".", "d", "o", "c">>,
      <<".", "d", "o", "c", "x">>, <<".", "x", "l", "s">>,
      <<".", "x", "l", "s", "x">>, <<".", "p", "p", "t">>,
      <<".", "p", "p", "t", "x">> }

HasKnownExtension(s) == \E e \in KnownExtensions : EndsWith(Lower(s), e)

\* bot.py:161-171: the staging name from the requested name or the URL path
StagingName(new_file_name, url_path) ==
    LET raw == IF new_file_name # None
               THEN sanitize_filename(new_file_name)
               ELSE sanitize_filename(IF url_path # None
                                      THEN LastSegment(url_path)
                                      ELSE DownloadedFile)
        named == IF raw = None THEN DownloadedFile ELSE raw
    IN  IF HasKnownExtension(named) THEN named ELSE named \o DotTxt

\* os.path.join("downloads", name) and os.path.basename
JoinDownloads(name) == <<"downloads", name>>
Basename(path) == path[2]

\* bot.py:280-284 without the extension check of bot.py:285-286
ManualName_NoExtension(filename, file_name_from_message) ==
    IF file_name_from_message # None
    THEN sanitize_filename(file_name_from_message)
    ELSE sanitize_filename(filename)

\* bot.py:280-286
ManualName(filename, file_name_from_message) ==
    LET file_ext == SplitExt(filename)
        base == IF file_name_from_message # None
                THEN sanitize_filename(file_name_from_message)
                ELSE sanitize_filename(filename)
    IN  IF EndsWith(Lower(base), Lower(file_ext)) THEN base ELSE base \o file_ext

\* bot.py:287-292
AutoName(filename, prefix, suffix) == prefix \o sanitize_filename(filename) \o suffix

\* the decimal digits of a natural number
DigitChar(d) == <<"0", "1", "2", "3", "4", "5", "6", "7", "8", "9">>[d + 1]

RECURSIVE DecimalDigits(_)
DecimalDigits(n) ==
    IF n < 10 THEN <<DigitChar(n)>>
    ELSE DecimalDigits(n \div 10) \o <<DigitChar(n % 10)>>

\* f"{n:.0f}" for an integer n: the sign of a negative number is kept
Format0f(n) == IF n < 0 THEN <<"-">> \o DecimalDigits(0 - n) ELSE DecimalDigits(n)

\* format_time, bot.py:140-152, on a whole number of seconds; // and % are
\* the floor division and its remainder
format_time(seconds) ==
    IF seconds < 60
    THEN Format0f(seconds) \o <<"s">>
    ELSE IF seconds < 3600
    THEN Format0f(seconds \div 60) \o <<"m", " ">>
            \o Format0f(seconds % 60) \o <<"s">>
    ELSE Format0f(seconds \div 3600) \o <<"h", " ">>
            \o Format0f((seconds % 3600) \div 60) \o <<"m", " ">>
            \o Format0f(seconds % 60) \o <<"s">>

\* percent = int(current_bytes / total_bytes * 100); on the byte counts and
\* totals of the model the floating-point result is the exact floor
Percent(current_bytes, total_bytes) == (current_bytes * 100) \div total_bytes

(***************************************************************************)
(* Inputs: the messages a user sends, the answers of the network.          *)
(***************************************************************************)
PathJpg == <<"/", "a", ".", "j", "p", "g">>
PathLong == <<"/">> \o Pad(TruncLen)
NameReserved == <<"?">>
NameDotTxt == <<".", "t", "x", "t">>

\* message.document set; message.text is None for a document message.
\* path is the path of the URL the file is fetched from, size the
\* content-length its server declares (0: none)
DocumentMessage(path, size) ==
    [kind |-> "document", path |-> path, name |-> None, size |-> size]
\* message.text = "<url>" or "<url> <name>"; path is urlparse(url).path
UrlMessage(path, name, size) ==
    [kind |-> "url", path |-> path, name |-> name, size |-> size]
\* any other text
OtherMessage == [kind |-> "other", path |-> None, name |-> None, size |-> 0]

Messages ==
    { OtherMessage,
      DocumentMessage(PathJpg, 2),
      UrlMessage(PathJpg, NameReserved, 200),
      UrlMessage(PathJpg, NameDotTxt, 0) }

\* the messages of the sequential runs that exercise the naming rules
NameUpper == <<"B", ".", "J", "P", "G">>

NameMessages ==
    { OtherMessage,
      DocumentMessage(PathJpg, 2),
      UrlMessage(PathLong, None, 0),
      UrlMessage(None, None, 0),
      UrlMessage(PathJpg, NameReserved, 200),
      UrlMessage(PathJpg, NameUpper, 0) }

\* answers of the getFile lookup (bot.py:221-231)
ResolveOutcomes ==
    {"ok", "request_error", "bad_status", "ok_false", "not_json", "missing_key"}

\* len(chunk) of the chunks iter_content yields
ChunkSizes == {0, 1, 2}

\* the settings dict of bot.py:24-29 and the values a deployment gives it
DefaultSettings ==
    [rename_mode |-> "manual", prefix |-> <<>>, suffix |-> <<>>, upload_type |-> "media"]

InitialSettings ==
    { DefaultSettings,
      [rename_mode |-> "auto", prefix |-> <<"p", "_">>, suffix |-> <<"_", "s">>,
       upload_type |-> "media"],
      [rename_mode |-> "manual", prefix |-> <<>>, suffix |-> <<>>,
       upload_type |-> "document"] }

(***************************************************************************)
(* State.                                                                  *)
(***************************************************************************)
\* the locals of one process_file call and what it has sent
NewCall(m) ==
    [ pc |-> "idle", kind |-> m.kind, url_path |-> m.path,
      content_length |-> m.size,
      file_name_from_message |-> m.name, resolution |-> "none",
      filename |-> None, staged |-> None, total_size |-> 0, downloaded |-> 0,
      local_file_path |-> None, branch |-> "none",
      renamed_file |-> None, renamed_file_path |-> None,
      replies |-> {}, emitted |-> <<>>, uploaded |-> None ]

\* no pure function has been called by itself
NotCalled == [returned |-> FALSE, value |-> None]

Init ==
    /\ settings \in InitialSettings
    /\ downloading_progress = <<>>
    /\ fs = <<>>
    /\ call = [t \in Threads |-> NewCall(OtherMessage)]
    /\ nreq = 0
    /\ argument = None
    /\ result = NotCalled

Put(f, k, v) == [x \in (DOMAIN f) \cup {k} |-> IF x = k THEN v ELSE f[x]]
Del(f, k) == [x \in (DOMAIN f) \ {k} |-> f[x]]

\* thread t is in no handler
Idle(t) == call[t].pc = "idle"
\* thread t has just left process_file, by return or by an exception
Returned(t) == call[t].pc \in {"done", "raised"}
\* no thread has just returned: the frame of a returned call is released
\* before any other step, which commutes with the steps of the other threads
Settled == \A u \in Threads : ~Returned(u)

Reply(c, r) == [c EXCEPT !.replies = @ \cup {r}]

(***************************************************************************)
(* process_file, bot.py:233-318, one action per step that touches shared   *)
(* state or the network.                                                   *)
(***************************************************************************)
\* bot.py:237-263: a worker thread takes the next message
ReceiveFrom(t, messages) ==
    /\ Settled
    /\ Idle(t)
    \* the pool's workers are interchangeable: the first free one is taken
    /\ \A u \in Threads : u < t => ~Idle(u)
    /\ nreq < MaxRequests
    /\ \E m \in messages :
         LET c == NewCall(m) IN
         call' = [call EXCEPT ![t] =
                    CASE m.kind = "document" -> [c EXCEPT !.pc = "resolve"]
                      [] m.kind = "url" -> [c EXCEPT !.pc = "download"]
                      [] OTHER -> [Reply(c, "invalid_input") EXCEPT !.pc = "done"]]
    /\ nreq' = nreq + 1
    /\ UNCHANGED <<settings, downloading_progress, fs, argument, result>>

Receive(t) == ReceiveFrom(t, Messages)

\* get_file_path, bot.py:218-231: what the call does with each answer.
\* "path": a file_path is returned; "none": None is returned; "raise": an
\* exception that is no RequestException leaves get_file_path.
GetFilePathResults(outcome) ==
    CASE outcome = "ok" -> {"path"}
      [] outcome \in {"request_error", "bad_status", "ok_false"} -> {"none"}
      \* response.json() raises requests' JSONDecodeError, a RequestException
      [] outcome = "not_json" -> {"none"}
      \* file_path_result["ok"] raises KeyError
      [] outcome = "missing_key" -> {"raise"}

\* bot.py:247-252
Resolve(t) ==
    /\ Settled
    /\ call[t].pc = "resolve"
    /\ \E outcome \in ResolveOutcomes : \E res \in GetFilePathResults(outcome) :
         LET c == [call[t] EXCEPT !.resolution = outcome] IN
         call' = [call EXCEPT ![t] =
                    CASE res = "path" -> [c EXCEPT !.pc = "download"]
                      [] res = "none" ->
                           [Reply(c, "resolve_failed") EXCEPT !.pc = "done"]
                      [] OTHER -> [c EXCEPT !.pc = "raised"]]
    /\ UNCHANGED <<settings, downloading_progress, fs, nreq, argument, result>>

\* download_file, bot.py:158-190: the name, the GET, the open of the staging
\* file; when the GET fails (RequestException) or anything else up to the
\* open raises, None is returned and process_file returns at bot.py:274
DownloadStart(t) ==
    /\ Settled
    /\ call[t].pc = "download"
    /\ LET filename == StagingName(call[t].file_name_from_message, call[t].url_path)
           c == [call[t] EXCEPT !.filename = filename]
       IN
       \/ /\ \E r \in {"download_failed", "download_unexpected"} :
               call' = [call EXCEPT ![t] = [Reply(c, r) EXCEPT !.pc = "done"]]
          /\ UNCHANGED fs
       \/ /\ call' = [call EXCEPT ![t] =
                        [c EXCEPT !.pc = "chunks", !.total_size = c.content_length,
                                  !.staged = JoinDownloads(filename)]]
          /\ fs' = Put(fs, JoinDownloads(filename), t)
    /\ UNCHANGED <<settings, downloading_progress, nreq, argument, result>>

\* progress_bar_callback, bot.py:105-139: the table after the call.  An entry
\* is its prev_percentage; start_time only feeds the speed and the ETA of
\* the message text
ProgressAfter(table, filename, current_bytes, total_bytes) ==
    LET prev == IF filename \in DOMAIN table
                THEN table[filename].prev_percentage ELSE 0
        percent == Percent(current_bytes, total_bytes)
    IN  Put(table, filename,
            [prev_percentage |-> IF percent > prev THEN percent ELSE prev])

\* progress_bar_callback, bot.py:111-139: the messages the call emits
ProgressEmitted(table, filename, current_bytes, total_bytes) ==
    LET prev == IF filename \in DOMAIN table
                THEN table[filename].prev_percentage ELSE 0
        percent == Percent(current_bytes, total_bytes)
    IN  IF percent > prev
        THEN << [percent |-> percent, finished |-> (percent = 100)] >>
        ELSE <<>>

\* the locals of download_file are gone once it has returned
EndDownload(c) == [c EXCEPT !.total_size = 0, !.downloaded = 0, !.emitted = <<>>]

\* bot.py:191-196 without the test of total_size at bot.py:195: with no
\* declared length progress_bar_callback creates the entry (bot.py:105-109)
\* and divides by zero at bot.py:111, which ends the download at bot.py:211
Chunk_ReportsAlways(t) ==
    /\ Settled
    /\ call[t].pc = "chunks"
    /\ \E n \in ChunkSizes :
         LET c == call[t]
             downloaded == c.downloaded + n
         IN
         /\ downloaded <= MaxBytes
         /\ c.total_size # 0 => downloaded <= c.total_size
         /\ IF n = 0
            THEN UNCHANGED <<call, downloading_progress>>
            ELSE IF c.total_size = 0
            THEN /\ call' = [call EXCEPT ![t] =
                               [EndDownload(Reply(c, "download_unexpected"))
                                  EXCEPT !.pc = "done"]]
                 /\ downloading_progress' =
                      IF c.filename \in DOMAIN downloading_progress
                      THEN downloading_progress
                      ELSE Put(downloading_progress, c.filename,
                               [prev_percentage |-> 0])
            ELSE /\ call' = [call EXCEPT ![t] =
                               [c EXCEPT !.downloaded = downloaded,
                                         !.emitted = @ \o ProgressEmitted(
                                                      downloading_progress, c.filename,
                                                      downloaded, c.total_size)]]
                 /\ downloading_progress' =
                      ProgressAfter(downloading_progress, c.filename, downloaded,
                                    c.total_size)
    /\ UNCHANGED <<settings, fs, nreq, argument, result>>

\* bot.py:191-196: one chunk of iter_content
Chunk(t) ==
    /\ Settled
    /\ call[t].pc = "chunks"
    /\ \E n \in ChunkSizes :
         LET c == call[t]
             downloaded == c.downloaded + n
             reports == n # 0 /\ c.total_size # 0
         IN
         /\ downloaded <= MaxBytes
         \* the body is no longer than a declared content-length
         /\ c.total_size # 0 => downloaded <= c.total_size
         /\ call' = [call EXCEPT ![t] =
                       [c EXCEPT !.downloaded = downloaded,
                                 !.emitted = IF reports
                                             THEN @ \o ProgressEmitted(
                                                    downloading_progress, c.filename,
                                                    downloaded, c.total_size)
                                             ELSE @]]
         /\ downloading_progress' =
              IF reports
              THEN ProgressAfter(downloading_progress, c.filename, downloaded,
                                 c.total_size)
              ELSE downloading_progress
    /\ UNCHANGED <<settings, fs, nreq, argument, result>>

\* ChunkFail without the return None of bot.py:210 and 216: the failed
\* download hands the staged path on to the rename
ChunkFail_ReturnsPath(t) ==
    /\ Settled
    /\ call[t].pc = "chunks"
    /\ \E r \in {"download_failed", "download_unexpected"} :
         call' = [call EXCEPT ![t] =
                    [EndDownload(Reply(call[t], r))
                       EXCEPT !.pc = "rename_mode",
                              !.local_file_path = call[t].staged]]
    /\ UNCHANGED <<settings, downloading_progress, fs, nreq, argument, result>>

\* bot.py:205-216: an exception while the stream is read or written
ChunkFail(t) ==
    /\ Settled
    /\ call[t].pc = "chunks"
    /\ \E r \in {"download_failed", "download_unexpected"} :
         call' = [call EXCEPT ![t] =
                    [EndDownload(Reply(call[t], r)) EXCEPT !.pc = "done"]]
    /\ UNCHANGED <<settings, downloading_progress, fs, nreq, argument, result>>

\* bot.py:197-204 and 211-216: the stream has ended
DownloadFinish(t) ==
    /\ Settled
    /\ call[t].pc = "chunks"
    /\ LET c == call[t] IN
       IF c.total_size # 0 /\ c.filename \notin DOMAIN downloading_progress
       THEN \* del downloading_progress[filename] raises KeyError
            /\ call' = [call EXCEPT ![t] =
                          [EndDownload(Reply(c, "download_unexpected"))
                             EXCEPT !.pc = "done"]]
            /\ UNCHANGED downloading_progress
       ELSE /\ call' = [call EXCEPT ![t] =
                          [EndDownload(c) EXCEPT !.pc = "rename_mode",
                                                 !.local_file_path = c.staged]]
            /\ downloading_progress' =
                 IF c.total_size # 0
                 THEN Del(downloading_progress, c.filename)
                 ELSE downloading_progress
    /\ UNCHANGED <<settings, fs, nreq, argument, result>>

\* bot.py:278-286: the first read of settings["rename_mode"]
RenameManual(t) ==
    /\ Settled
    /\ call[t].pc = "rename_mode"
    /\ LET c == call[t]
           filename == Basename(c.local_file_path)
           renamed_file == ManualName(filename, c.file_name_from_message)
       IN
       call' = [call EXCEPT ![t] =
                  IF settings.rename_mode = "manual"
                  THEN [c EXCEPT !.pc = "rename", !.branch = "manual",
                                 !.renamed_file = renamed_file,
                                 !.renamed_file_path = JoinDownloads(renamed_file)]
                  ELSE [c EXCEPT !.pc = "rename_mode2"]]
    /\ UNCHANGED <<settings, downloading_progress, fs, nreq, argument, result>>

\* bot.py:287-294: the second read of settings["rename_mode"]; when it is
\* not "auto" either, renamed_file is unbound at bot.py:294, the handler of
\* bot.py:313 replies, and the finally clause reads the unbound
\* renamed_file_path at bot.py:317: the exception leaves process_file
RenameAuto(t) ==
    /\ Settled
    /\ call[t].pc = "rename_mode2"
    /\ LET c == call[t]
           filename == Basename(c.local_file_path)
           renamed_file == AutoName(filename, settings.prefix, settings.suffix)
       IN
       call' = [call EXCEPT ![t] =
                  IF settings.rename_mode = "auto"
                  THEN [c EXCEPT !.pc = "rename", !.branch = "auto",
                                 !.renamed_file = renamed_file,
                                 !.renamed_file_path = JoinDownloads(renamed_file)]
                  ELSE [Reply(c, "unexpected") EXCEPT !.pc = "raised",
                                                      !.branch = "neither"]]
    /\ UNCHANGED <<settings, downloading_progress, fs, nreq, argument, result>>

\* os.rename(src, dst) with src missing raises FileNotFoundError
RenameMissing(files, src) == src \notin DOMAIN files

\* os.rename(src, dst) onto another existing file: replaced silently on
\* POSIX, FileExistsError on Windows
RenameCollides(files, src, dst) ==
    src \in DOMAIN files /\ src # dst /\ dst \in DOMAIN files

\* the files after a successful os.rename(src, dst)
RenameResult(files, src, dst) ==
    IF src = dst THEN files ELSE Put(Del(files, src), dst, files[src])

\* bot.py:295 and 313-315
OsRename(t) ==
    /\ Settled
    /\ call[t].pc = "rename"
    /\ LET c == call[t]
           raised == /\ call' = [call EXCEPT ![t] =
                                   [Reply(c, "unexpected") EXCEPT !.pc = "cleanup"]]
                     /\ UNCHANGED fs
           renamed == /\ call' = [call EXCEPT ![t].pc = "upload"]
                      /\ fs' = RenameResult(fs, c.local_file_path,
                                            c.renamed_file_path)
       IN
       IF RenameMissing(fs, c.local_file_path) THEN raised
       ELSE IF RenameCollides(fs, c.local_file_path, c.renamed_file_path)
       THEN raised \/ renamed
       ELSE renamed
    /\ UNCHANGED <<settings, downloading_progress, nreq, argument, result>>

\* bot.py:298-311: the upload, skipped unless upload_type is "media"
Upload(t) ==
    /\ Settled
    /\ call[t].pc = "upload"
    /\ LET c == call[t] IN
       IF settings.upload_type # "media"
       THEN call' = [call EXCEPT ![t].pc = "cleanup"]
       ELSE IF c.renamed_file_path \notin DOMAIN fs
       THEN \* open(renamed_file_path, "rb") raises
            call' = [call EXCEPT ![t] =
                       [Reply(c, "upload_failed") EXCEPT !.pc = "cleanup"]]
       ELSE \/ call' = [call EXCEPT ![t] =
                          [c EXCEPT !.pc = "cleanup", !.uploaded = c.renamed_file]]
            \/ call' = [call EXCEPT ![t] =
                          [Reply(c, "upload_failed") EXCEPT !.pc = "cleanup"]]
    /\ UNCHANGED <<settings, downloading_progress, fs, nreq, argument, result>>

\* process_file without the finally clause of bot.py:316-318: the call
\* returns and leaves the renamed file
CleanupCheck_NoFinally(t) ==
    /\ Settled
    /\ call[t].pc = "cleanup"
    /\ call' = [call EXCEPT ![t].pc = "done"]
    /\ UNCHANGED <<settings, downloading_progress, fs, nreq, argument, result>>

\* bot.py:316-317: os.path.exists(renamed_file_path)
CleanupCheck(t) ==
    /\ Settled
    /\ call[t].pc = "cleanup"
    /\ call' = [call EXCEPT ![t].pc =
                  IF call[t].renamed_file_path \in DOMAIN fs
                  THEN "remove" ELSE "done"]
    /\ UNCHANGED <<settings, downloading_progress, fs, nreq, argument, result>>

\* bot.py:318: os.remove(renamed_file_path); FileNotFoundError leaves
\* process_file when the file has gone since the check
CleanupRemove(t) ==
    /\ Settled
    /\ call[t].pc = "remove"
    /\ IF call[t].renamed_file_path \in DOMAIN fs
       THEN /\ fs' = Del(fs, call[t].renamed_file_path)
            /\ call' = [call EXCEPT ![t].pc = "done"]
       ELSE /\ call' = [call EXCEPT ![t].pc = "raised"]
            /\ UNCHANGED fs
    /\ UNCHANGED <<settings, downloading_progress, nreq, argument, result>>

\* rename_mode_command, bot.py:61-71, run by a thread that is in no
\* process_file call
RenameModeCommand(t) ==
    /\ Settled
    /\ Idle(t)
    /\ \E arg \in {"manual", "auto", "other"} :
         settings' = IF arg \in {"manual", "auto"}
                     THEN [settings EXCEPT !.rename_mode = arg]
                     ELSE settings
    /\ UNCHANGED <<downloading_progress, fs, call, nreq, argument, result>>

\* the worker is free again; the files the call has left under downloads
\* are from now on those of a finished call (owner 0)
Release(t) ==
    /\ Returned(t)
    /\ call' = [call EXCEPT ![t] = NewCall(OtherMessage)]
    /\ fs' = [p \in DOMAIN fs |-> IF fs[p] = t THEN 0 ELSE fs[p]]
    /\ UNCHANGED <<settings, downloading_progress, nreq, argument, result>>

Next ==
    \E t \in Threads :
       \/ Receive(t)
       \/ Resolve(t)
       \/ DownloadStart(t)
       \/ Chunk(t)
       \/ ChunkFail(t)
       \/ DownloadFinish(t)
       \/ RenameManual(t)
       \/ RenameAuto(t)
       \/ OsRename(t)
       \/ Upload(t)
       \/ CleanupCheck(t)
       \/ CleanupRemove(t)
       \/ RenameModeCommand(t)
       \/ Release(t)

Spec == Init /\ [][Next]_vars

\* the same handlers on a single worker, one message after the other, over
\* the messages that exercise the naming rules
NamesReceive(t) == ReceiveFrom(t, NameMessages)

NamesNext ==
    \E t \in {1} :
       \/ NamesReceive(t)
       \/ Resolve(t)
       \/ DownloadStart(t)
       \/ Chunk(t)
       \/ ChunkFail(t)
       \/ DownloadFinish(t)
       \/ RenameManual(t)
       \/ RenameAuto(t)
       \/ OsRename(t)
       \/ Upload(t)
       \/ CleanupCheck(t)
       \/ CleanupRemove(t)
       \/ RenameModeCommand(t)
       \/ Release(t)

SpecNames == Init /\ [][NamesNext]_vars

(***************************************************************************)
(* The pure functions taken by themselves: one call on an argument drawn   *)
(* from a bounded set.                                                     *)
(***************************************************************************)
\* no handler runs
NoHandler ==
    /\ settings = DefaultSettings
    /\ downloading_progress = <<>>
    /\ fs = <<>>
    /\ call = [t \in Threads |-> NewCall(OtherMessage)]
    /\ nreq = 0

\* an ordinary character and each character of invalid_chars
SanitizeAlphabet == {"a"} \cup InvalidChars

StringsUpTo(n, alphabet) == UNION {[1..k -> alphabet] : k \in 0..n}

\* short arguments, and arguments around the 200 characters of the cut
SanitizeInputs ==
    { head \o tail : head \in {<<>>, Pad(TruncLen)},
                     tail \in StringsUpTo(MaxNameLen, SanitizeAlphabet) }

InitSanitize ==
    /\ NoHandler
    /\ argument \in SanitizeInputs
    /\ result = NotCalled

\* result = sanitize_filename(argument)
CallSanitize ==
    /\ ~result.returned
    /\ result' = [returned |-> TRUE, value |-> sanitize_filename(argument)]
    /\ UNCHANGED <<settings, downloading_progress, fs, call, nreq, argument>>

SpecSanitize == InitSanitize /\ [][CallSanitize]_vars

\* whole numbers of seconds of either sign
FormatTimeInputs == (0 - MaxSeconds)..MaxSeconds

InitFormatTime ==
    /\ NoHandler
    /\ argument \in FormatTimeInputs
    /\ result = NotCalled

\* result = format_time(argument)
CallFormatTime ==
    /\ ~result.returned
    /\ result' = [returned |-> TRUE, value |-> format_time(argument)]
    /\ UNCHANGED <<settings, downloading_progress, fs, call, nreq, argument>>

SpecFormatTime == InitFormatTime /\ [][CallFormatTime]_vars

(***************************************************************************)
(* Properties.                                                             *)
(***************************************************************************)
\* the files under downloads that the call on thread t has created
FilesOf(t) == {p \in DOMAIN fs : fs[p] = t}

\* C1: when a process_file call whose download returned a path returns, no
\* file created by that call exists under downloads, at the staged path or
\* at the renamed path.
C1_NoArtifactAfterReturn ==
    \A t \in Threads :
       (Returned(t) /\ call[t].local_file_path # None) => FilesOf(t) = {}

\* C2: when download_file has failed after opening the staging file, the
\* partially written file is gone once process_file has returned.
C2_NoPartialFileAfterFailedDownload ==
    \A t \in Threads :
       (Returned(t) /\ call[t].staged # None /\ call[t].local_file_path = None)
          => call[t].staged \notin FilesOf(t)

\* C3: whenever no download is in flight, downloading_progress is empty.
C3_ProgressTableEmptyWhenIdle ==
    (\A t \in Threads : call[t].pc \notin {"download", "chunks"})
       => DOMAIN downloading_progress = {}

\* C4: when the final path names an existing file other than the staged
\* one, the rename step fails as an internal error and leaves the files as
\* they are (so nothing is uploaded under that name).
C4_CollisionFailsRename ==
    [][\A t \in Threads :
          ( /\ call[t].pc = "rename"
            /\ call'[t].pc # "rename"
            /\ RenameCollides(fs, call[t].local_file_path,
                              call[t].renamed_file_path) )
          => ( /\ fs' = fs
               /\ call'[t].pc = "cleanup"
               /\ "unexpected" \in call'[t].replies )]_vars

\* C5: the rename step of a process_file call applies one of the two
\* policies, manual or auto; it never executes neither branch.
C5_OnePolicyApplied ==
    \A t \in Threads : call[t].branch # "neither"

\* C6: two download_file calls in flight at the same time never use the same
\* staging path nor the same downloading_progress key.
C6_NoSharedStagingOrProgress ==
    \A t, u \in Threads :
       (t # u /\ call[t].pc = "chunks" /\ call[u].pc = "chunks")
          => ( /\ call[t].staged # call[u].staged
               /\ call[t].filename # call[u].filename )

\* a name is safe for the filesystem: no reserved character, at most 200 long
SafeName(name) ==
    /\ \A i \in 1..Len(name) : name[i] \notin {"<", ">", ":", "\"", "/", "\\", "|", "?", "*"}
    /\ Len(name) <= 200

\* C7: every file name that download_file and process_file pass to a
\* filesystem operation (the staging name, the renamed name) has none of
\* the reserved characters and is at most 200 characters long.
C7_NamesSafeAndBounded ==
    \A t \in Threads :
       /\ call[t].staged # None => SafeName(Basename(call[t].staged))
       /\ call[t].renamed_file_path # None
             => SafeName(Basename(call[t].renamed_file_path))

\* the percentages of a sequence of progress messages increase strictly
StrictlyIncreasing(e) ==
    \A i \in 1..(Len(e) - 1) : e[i].percent < e[i + 1].percent

\* C8: within one transfer the percentages of the emitted progress messages
\* are strictly increasing (two reports with the same floor percentage give
\* at most one message).
C8_EmittedStrictlyIncreasing ==
    \A t \in Threads : StrictlyIncreasing(call[t].emitted)

\* C9: once the byte count of a transfer with a known total has reached the
\* total, the last progress message of the transfer is for 100 percent and
\* carries the completion marker.
C9_LastMessageIsHundred ==
    \A t \in Threads :
       ( /\ call[t].pc = "chunks"
         /\ call[t].total_size # 0
         /\ call[t].downloaded = call[t].total_size )
       => ( /\ call[t].emitted # <<>>
            /\ call[t].emitted[Len(call[t].emitted)].percent = 100
            /\ call[t].emitted[Len(call[t].emitted)].finished )

\* C10: when the resolution of an uploaded document fails, process_file ends
\* there: no download, no file under downloads, and the resolution-failure
\* reply is sent.
C10_ResolutionFailureReported ==
    \A t \in Threads :
       (Returned(t) /\ call[t].resolution \notin {"none", "ok"})
          => ( /\ call[t].filename = None
               /\ call[t].staged = None
               /\ FilesOf(t) = {}
               /\ "resolve_failed" \in call[t].replies )

\* C11: every process_file call that ends without handing a file to the
\* upload sink has sent at least one failure reply, and no exception leaves
\* process_file.
C11_EveryFailureReported ==
    \A t \in Threads :
       /\ call[t].pc # "raised"
       /\ (Returned(t) /\ call[t].uploaded = None) => call[t].replies # {}

\* the stage a position of process_file belongs to, in the order of the code
StageRank(pc) ==
    CASE pc = "idle" -> 0
      [] pc = "resolve" -> 1
      [] pc \in {"download", "chunks"} -> 2
      [] pc \in {"rename_mode", "rename_mode2", "rename"} -> 3
      [] pc = "upload" -> 4
      [] pc \in {"cleanup", "remove"} -> 5
      [] OTHER -> 6

DownloadFailures == {"download_failed", "download_unexpected"}

\* C12: the stages of one process_file call occur only in the order
\* resolve, download, rename, upload; the rename is attempted only after
\* download_file returned a path; the upload is attempted only after the
\* rename succeeded and only when upload_type is media; after a failed
\* download neither rename nor upload is attempted.
C12_StagesInOrder ==
    [][\A t \in Threads :
          \* a call never goes back to an earlier stage
          /\ call'[t].pc # "idle" => StageRank(call'[t].pc) >= StageRank(call[t].pc)
          \* the rename stage is entered from a download that returned a path
          /\ StageRank(call'[t].pc) = 3
                => ( /\ StageRank(call[t].pc) \in {2, 3}
                     /\ call'[t].local_file_path # None
                     /\ call'[t].replies \cap DownloadFailures = {} )
          \* the upload stage is entered by a rename that succeeded
          /\ (call'[t].pc = "upload" /\ call[t].pc # "upload")
                => ( /\ call[t].pc = "rename"
                     /\ ~RenameMissing(fs, call[t].local_file_path)
                     /\ fs' = RenameResult(fs, call[t].local_file_path,
                                           call[t].renamed_file_path)
                     /\ call'[t].replies = call[t].replies )
          \* the upload is attempted in the upload stage, when upload_type
          \* is media
          /\ ( \/ call'[t].uploaded \notin {None, call[t].uploaded}
               \/ "upload_failed" \in call'[t].replies \ call[t].replies )
                => (call[t].pc = "upload" /\ settings.upload_type = "media")
          \* a failed download ends the call
          /\ ( /\ StageRank(call[t].pc) = 2
               /\ (call'[t].replies \ call[t].replies) \cap DownloadFailures # {} )
                => call'[t].pc = "done"
      ]_vars

\* a document has been resolved, downloaded, renamed and uploaded
C12_Witness ==
    \E t \in Threads :
       /\ call[t].pc = "done"
       /\ call[t].kind = "document"
       /\ call[t].resolution = "ok"
       /\ call[t].uploaded # None

\* C13: when the upload raises after a successful rename, the renamed file
\* of the call is gone from downloads by the time process_file returns, and
\* the user has the upload-failure reply and not the generic
\* unexpected-error reply.
C13_UploadFailureCleansUp ==
    \A t \in Threads :
       (Returned(t) /\ "upload_failed" \in call[t].replies)
          => ( /\ call[t].renamed_file_path \notin DOMAIN fs
               /\ call[t].replies = {"upload_failed"} )

\* a call whose upload raised has returned
C13_Witness ==
    \E t \in Threads :
       /\ call[t].pc = "done"
       /\ call[t].local_file_path # None
       /\ call[t].renamed_file_path # None
       /\ "upload_failed" \in call[t].replies

\* C14: in auto mode the name handed to the upload sink is prefix, then the
\* sanitized name of the staged file, then suffix, and a name the user
\* supplied in the message has no effect on it: it is the name the same
\* message gets without the supplied name.
C14_AutoNameIgnoresUserName ==
    \A t \in Threads :
       (call[t].branch = "auto" /\ call[t].uploaded # None)
          => ( /\ call[t].uploaded =
                    settings.prefix
                       \o sanitize_filename(Basename(call[t].local_file_path))
                       \o settings.suffix
               /\ call[t].uploaded =
                    AutoName(StagingName(None, call[t].url_path),
                             settings.prefix, settings.suffix) )

\* C15: in manual mode the final name is the sanitized user-supplied name
\* when one was given and the sanitized staged name otherwise, with the
\* extension of the staged file appended exactly when the name does not
\* already end with it (compared case-insensitively); in both cases the
\* final name ends with that extension.
C15_ManualNameKeepsExtension ==
    \A t \in Threads :
       (call[t].branch = "manual" /\ call[t].renamed_file_path # None)
          => LET staged == Basename(call[t].local_file_path)
                 ext == SplitExt(staged)
                 given == call[t].file_name_from_message
                 name == sanitize_filename(IF given # None THEN given ELSE staged)
                 final == Basename(call[t].renamed_file_path)
                 ends == EndsWith(Lower(name), Lower(ext))
             IN  /\ EndsWith(Lower(final), Lower(ext))
                 /\ ends => final = name
                 /\ ~ends => final = name \o ext

\* a file staged under a user-supplied name that lacks the extension has
\* been uploaded in manual mode
C15_Witness ==
    \E t \in Threads :
       /\ call[t].branch = "manual"
       /\ call[t].file_name_from_message # None
       /\ call[t].uploaded # None
       /\ call[t].uploaded # sanitize_filename(call[t].file_name_from_message)

\* the characters sanitize_filename is to remove
Reserved == {"<", ">", ":", "\"", "/", "\\", "|", "?", "*"}

\* the positions of s that hold no reserved character
KeptPositions(s) == {i \in 1..Len(s) : s[i] \notin Reserved}

\* how many characters that are not reserved s has up to position i
KeptUpTo(s, i) == Cardinality({j \in KeptPositions(s) : j <= i})

\* C16: sanitize_filename returns its argument with every occurrence of
\* < > : " / \ | ? * removed and then cut to the first 200 characters: the
\* result has none of these characters, is at most 200 long, is empty when
\* the argument consists only of these characters, and sanitize_filename
\* returns it unchanged.
C16_SanitizeStripsAndCuts ==
    result.returned
       => LET out == result.value
              kept == Cardinality(KeptPositions(argument))
          IN  /\ Len(out) = IF kept > 200 THEN 200 ELSE kept
              /\ \A i \in KeptPositions(argument) :
                    KeptUpTo(argument, i) <= 200
                       => out[KeptUpTo(argument, i)] = argument[i]
              /\ \A k \in 1..Len(out) : out[k] \notin Reserved
              /\ Len(out) <= 200
              /\ (KeptPositions(argument) = {}) => out = <<>>
              /\ sanitize_filename(out) = out

\* sanitize_filename has returned for an argument that has reserved
\* characters and more than 200 others
C16_Witness ==
    /\ result.returned
    /\ KeptPositions(argument) # 1..Len(argument)
    /\ Cardinality(KeptPositions(argument)) > 200
    /\ Len(result.value) = 200

\* C17: format_time does not raise for a zero or negative number of
\* seconds and renders every such duration as 0s.
C17_NonPositiveRendersZero ==
    (result.returned /\ argument <= 0) => result.value = <<"0", "s">>

\* C18: when the response declares no content length or a content length
\* of 0, no step of download_file calls progress_bar_callback (no progress
\* message is emitted) and none creates, changes or deletes an entry of
\* downloading_progress: each step of the call leaves the table as it was.
C18_NoProgressWithoutLength ==
    [][\A t \in Threads :
          ( /\ call[t].pc \in {"download", "chunks"}
            /\ call[t].content_length = 0
            /\ call'[t] # call[t] )
          => ( /\ downloading_progress' = downloading_progress
               /\ call'[t].emitted = <<>> )]_vars

\* a download without declared length has received data and returned its
\* path, while the table holds the entry of another transfer
C18_Witness ==
    \E t \in Threads :
       /\ call[t].pc = "rename_mode"
       /\ call[t].content_length = 0
       /\ call[t].local_file_path \in DOMAIN fs
       /\ DOMAIN downloading_progress # {}

\* C19: whenever the stream of download_file is read to its end without a
\* network error and every write has succeeded, download_file returns the
\* staged path and sends no failure reply, whatever the declared content
\* length and the chunks delivered.
C19_CompleteStreamReturnsPath ==
    [][\A t \in Threads :
          DownloadFinish(t)
             => ( /\ call'[t].local_file_path = call[t].staged
                  /\ call'[t].replies = call[t].replies )]_vars

====
